---- MODULE Spec2Model ----
(***************************************************************************)
(* TaskManager (src/src/main.rs): an in-memory list of tasks driven by a   *)
(* console menu, with save/load of the list as JSON.                       *)
(*                                                                         *)
(* Strings are sequences of one-character strings.  A line read from       *)
(* stdin is either such a sequence (still holding its line end) or the     *)
(* value InputErr, an io::Error of read_line/flush.  A file's content is   *)
(* the sequence of JSON tokens serde_json writes for Vec<Task>.            *)
(***************************************************************************)
EXTENDS Integers, Sequences, FiniteSets, TLC

\* ------------------------------------------------------------------ bounds
\* The clock value of the first Task::new of the run.
FirstTime == 9
\* How many tasks one run creates at most (each Task::new advances the clock).
MaxAdds == 2

\* ------------------------------------------------------------------ strings
IsSpace(c) == c \in {" ", "\n", "\t"}

LowerChar(c) ==
    CASE c = "A" -> "a"
      [] c = "B" -> "b"
      [] c = "C" -> "c"
      [] OTHER -> c

\* str::to_lowercase
to_lowercase(s) == [i \in 1..Len(s) |-> LowerChar(s[i])]

RECURSIVE trim_start(_)
trim_start(s) ==
    IF s = <<>> THEN s
    ELSE IF IsSpace(Head(s)) THEN trim_start(Tail(s)) ELSE s

RECURSIVE trim_end(_)
trim_end(s) ==
    IF s = <<>> THEN s
    ELSE IF IsSpace(s[Len(s)]) THEN trim_end(SubSeq(s, 1, Len(s) - 1)) ELSE s

\* str::trim
trim(s) == trim_end(trim_start(s))

\* ------------------------------------------------------------------ Priority, Task
\* enum Priority, by discriminant.
PriorityNone == 0
PriorityLow == 1
PriorityMedium == 2
PriorityHigh == 3
PriorityVeryHigh == 4
Priority == {PriorityNone, PriorityLow, PriorityMedium, PriorityHigh, PriorityVeryHigh}

\* Task::new; now is what Local::now() returns.
TaskNew(name, description, priority, now) ==
    [name |-> name, description |-> description, priority |-> priority, add_time |-> now]

\* ------------------------------------------------------------------ TaskManager
\* Iterator::position over the tasks: the first index whose name matches, 0 for None.
find_case_sensitive(ts, name) ==
    IF \E i \in 1..Len(ts) : ts[i].name = name
    THEN CHOOSE i \in 1..Len(ts) :
            /\ ts[i].name = name
            /\ \A j \in 1..(i - 1) : ts[j].name # name
    ELSE 0

find(ts, name) ==
    IF \E i \in 1..Len(ts) : to_lowercase(ts[i].name) = to_lowercase(name)
    THEN CHOOSE i \in 1..Len(ts) :
            /\ to_lowercase(ts[i].name) = to_lowercase(name)
            /\ \A j \in 1..(i - 1) : to_lowercase(ts[j].name) # to_lowercase(name)
    ELSE 0

\* Vec::remove(index): the elements after index shift left.
VecRemove(ts, i) == SubSeq(ts, 1, i - 1) \o SubSeq(ts, i + 1, Len(ts))

push(ts, task) == Append(ts, task)

pop_front(ts) ==
    IF ts = <<>> THEN [some |-> FALSE, val |-> <<>>, tasks |-> ts]
    ELSE [some |-> TRUE, val |-> <<Head(ts)>>, tasks |-> Tail(ts)]

\* Vec::pop: None on an empty vector.
pop(ts) ==
    IF ts = <<>> THEN [some |-> FALSE, val |-> <<>>, tasks |-> ts]
    ELSE [some |-> TRUE, val |-> <<ts[Len(ts)]>>, tasks |-> SubSeq(ts, 1, Len(ts) - 1)]

remove_every_match(ts, name) ==
    LET index == find(ts, name) IN
    IF index # 0
    THEN [ok |-> TRUE, val |-> <<ts[index]>>,
          tasks |-> SelectSeq(ts, LAMBDA t : to_lowercase(t.name) # to_lowercase(name))]
    ELSE [ok |-> FALSE, val |-> <<>>, tasks |-> ts]

remove(ts, name) ==
    LET index == find(ts, name) IN
    IF index # 0
    THEN [ok |-> TRUE, val |-> <<ts[index]>>, tasks |-> VecRemove(ts, index)]
    ELSE [ok |-> FALSE, val |-> <<>>, tasks |-> ts]

clear(ts) == <<>>

\* ------------------------------------------------------------------ JSON (serde_json)
\* A token of the JSON text: its kind (a bracket, a comma, or a field's key) and,
\* for a field, the characters of its value.
Tok(k, v) == [k |-> k, v |-> v]

Digits == <<"0", "1", "2", "3", "4", "5", "6", "7", "8", "9">>

\* #[derive(Serialize)] on a unit variant writes the variant's name.
PriorityToJson(p) ==
    CASE p = PriorityNone -> <<"None">>
      [] p = PriorityLow -> <<"Low">>
      [] p = PriorityMedium -> <<"Medium">>
      [] p = PriorityHigh -> <<"High">>
      [] p = PriorityVeryHigh -> <<"VeryHigh">>

\* #[derive(Deserialize)]: the variant of that name, -1 for an unknown variant.
PriorityFromJson(v) ==
    CASE v = <<"None">> -> PriorityNone
      [] v = <<"Low">> -> PriorityLow
      [] v = <<"Medium">> -> PriorityMedium
      [] v = <<"High">> -> PriorityHigh
      [] v = <<"VeryHigh">> -> PriorityVeryHigh
      [] OTHER -> -1

\* DateTime<Local> is written as text; here the clock's reading in decimal.
RECURSIVE TimeToJson(_)
TimeToJson(n) ==
    IF n < 10 THEN <<Digits[n + 1]>>
    ELSE TimeToJson(n \div 10) \o <<Digits[(n % 10) + 1]>>

DigitVal(c) == (CHOOSE d \in 1..10 : Digits[d] = c) - 1

IsTimeJson(v) == v # <<>> /\ \A i \in 1..Len(v) : \E d \in 1..10 : Digits[d] = v[i]

RECURSIVE TimeFromJson(_)
TimeFromJson(v) ==
    IF Len(v) = 1 THEN DigitVal(v[1])
    ELSE 10 * TimeFromJson(SubSeq(v, 1, Len(v) - 1)) + DigitVal(v[Len(v)])

\* #[derive(Serialize)] for Task: the four fields in declaration order.
TaskToJson(t) ==
    << Tok("{", <<>>),
       Tok("name", t.name),
       Tok("description", t.description),
       Tok("priority", PriorityToJson(t.priority)),
       Tok("add_time", TimeToJson(t.add_time)),
       Tok("}", <<>>) >>

\* serde_json::to_writer(&file, &self.tasks): the whole text of the array.
RECURSIVE to_writer(_)
to_writer(ts) ==
    IF ts = <<>> THEN << Tok("[", <<>>), Tok("]", <<>>) >>
    ELSE IF Len(ts) = 1 THEN << Tok("[", <<>>) >> \o TaskToJson(ts[1]) \o << Tok("]", <<>>) >>
    ELSE LET init == to_writer(SubSeq(ts, 1, Len(ts) - 1)) IN
         SubSeq(init, 1, Len(init) - 1) \o << Tok(",", <<>>) >>
            \o TaskToJson(ts[Len(ts)]) \o << Tok("]", <<>>) >>

\* Whether a well-formed task object starts at token i.
TaskAt(toks, i) ==
    /\ i + 5 <= Len(toks)
    /\ toks[i].k = "{"
    /\ toks[i + 1].k = "name"
    /\ toks[i + 2].k = "description"
    /\ toks[i + 3].k = "priority"
    /\ PriorityFromJson(toks[i + 3].v) # -1
    /\ toks[i + 4].k = "add_time"
    /\ IsTimeJson(toks[i + 4].v)
    /\ toks[i + 5].k = "}"

\* #[derive(Deserialize)] for Task.
TaskFromJson(toks, i) ==
    [name |-> toks[i + 1].v,
     description |-> toks[i + 2].v,
     priority |-> PriorityFromJson(toks[i + 3].v),
     add_time |-> TimeFromJson(toks[i + 4].v)]

ParseErr == [ok |-> FALSE, val |-> <<>>]

RECURSIVE ParseElems(_, _, _)
ParseElems(toks, i, acc) ==
    IF ~TaskAt(toks, i) THEN ParseErr
    ELSE LET acc2 == Append(acc, TaskFromJson(toks, i))
             j == i + 6
         IN  IF j > Len(toks) THEN ParseErr
             ELSE IF toks[j].k = "]"
                  THEN (IF j = Len(toks) THEN [ok |-> TRUE, val |-> acc2] ELSE ParseErr)
             ELSE IF toks[j].k = "," THEN ParseElems(toks, j + 1, acc2)
             ELSE ParseErr

\* serde_json::from_reader::<Vec<Task>>: the tasks of the text, or an error for a
\* text that is no complete array of tasks (an empty or truncated file included).
from_reader(toks) ==
    IF Len(toks) < 2 \/ toks[1].k # "[" THEN ParseErr
    ELSE IF toks[2].k = "]"
         THEN (IF Len(toks) = 2 THEN [ok |-> TRUE, val |-> <<>>] ELSE ParseErr)
    ELSE ParseElems(toks, 2, <<>>)

\* ------------------------------------------------------------------ files
NoFile == [exists |-> FALSE, data |-> <<>>]
FileOf(data) == [exists |-> TRUE, data |-> data]

\* How many tokens of a text reach the file: all of them, or a write fails at the
\* first token or at the last one.
WriteOutcomes(text) == {0, Len(text) - 1, Len(text)}

store_to_file_overwrite(ts, fs, path, createOk, written) ==
    IF ~createOk THEN [ok |-> FALSE, files |-> fs]
    ELSE [ok |-> TRUE,
          files |-> [fs EXCEPT ![path] = FileOf(SubSeq(to_writer(ts), 1, written))]]

\* TaskManager::store_to_file.  createOk: File::create succeeds; written: the
\* tokens to_writer gets into the file before it returns (its Err is dropped).
store_to_file(ts, fs, path, createOk, written) ==
    IF ~fs[path].exists
    THEN IF ~createOk THEN [ok |-> FALSE, files |-> fs]
         ELSE [ok |-> TRUE,
               files |-> [fs EXCEPT ![path] = FileOf(SubSeq(to_writer(ts), 1, written))]]
    ELSE [ok |-> TRUE, files |-> fs]

read_from_file_append(ts, fs, path, openOk) ==
    IF fs[path].exists
    THEN IF ~openOk THEN [ok |-> FALSE, tasks |-> ts]
         ELSE LET data == from_reader(fs[path].data) IN
              IF data.ok THEN [ok |-> TRUE, tasks |-> ts \o data.val]
              ELSE [ok |-> FALSE, tasks |-> ts]
    ELSE [ok |-> TRUE, tasks |-> ts]

\* TaskManager::read_from_file.  openOk: File::open succeeds.
read_from_file(ts, fs, path, openOk) ==
    IF fs[path].exists
    THEN IF ~openOk THEN [ok |-> FALSE, tasks |-> ts]
         ELSE LET data == from_reader(fs[path].data) IN
              IF data.ok THEN [ok |-> TRUE, tasks |-> data.val]
              ELSE [ok |-> FALSE, tasks |-> ts]
    ELSE [ok |-> TRUE, tasks |-> ts]

\* ------------------------------------------------------------------ console input
\* What ConsoleForTask::input returns: Ok(line), the line with its line end, or Err.
Line(chars) == [ok |-> TRUE, line |-> chars]
InputErr == [ok |-> FALSE, line |-> <<>>]

CommandTokens == {<<"h">>, <<"1">>, <<"2">>, <<"3">>, <<"4">>, <<"5">>, <<"6">>,
                  <<"7">>, <<"8">>, <<"9">>}

\* The lines typed at the command prompt: every command, one with blanks around
\* it, and lines that are no command (an end of input reads as the empty line).
CommandInputs ==
    {Line(t \o <<"\n">>) : t \in CommandTokens}
        \cup {Line(<<" ", "2", " ", "\n">>), Line(<<"H", "\n">>), Line(<<>>), InputErr}

NewNameInputs == {Line(<<"A", "\n">>), Line(<<" ", "b", "\n">>), InputErr}
DescriptionInputs == {Line(<<"d", " ", "\n">>), InputErr}
\* The lines typed at the priority prompt: three of the four indexes, an index
\* out of range and an end of input.
PriorityInputs ==
    {Line(<<"1", "\n">>), Line(<<"3", "\n">>), Line(<<" ", "4", "\n">>),
     Line(<<"5", "\n">>), Line(<<>>), InputErr}
LookupInputs ==
    {Line(<<"a", "\n">>), Line(<<"B", " ", "\n">>), Line(<<"c", "\n">>), InputErr}
PathInputs == {Line(<<"p", "\n">>), Line(<<" ", "p", "\n">>), InputErr}

Paths == {trim(r.line) : r \in {x \in PathInputs : x.ok}}

\* The match on the priority index (lines 228-237).
PriorityOfIndex(tok) ==
    CASE tok = <<"1">> -> PriorityLow
      [] tok = <<"2">> -> PriorityMedium
      [] tok = <<"3">> -> PriorityHigh
      [] tok = <<"4">> -> PriorityVeryHigh
      [] OTHER -> PriorityNone

\* TaskManager::sort: its body is commented out.
sort(ts) == ts

\* ------------------------------------------------------------------ files found at start
\* A file another program left behind: one task whose priority is "None".
ForeignText ==
    << Tok("[", <<>>), Tok("{", <<>>), Tok("name", <<"B">>), Tok("description", <<>>),
       Tok("priority", <<"None">>), Tok("add_time", <<"7">>), Tok("}", <<>>),
       Tok("]", <<>>) >>

\* What a path may hold when the program starts: nothing, a task list written
\* elsewhere, or a file that is no JSON at all.
InitialFiles == {NoFile, FileOf(ForeignText), FileOf(<< Tok("#", <<>>) >>)}

\* ------------------------------------------------------------------ state
\* `last` is the record of the step just taken: for save and load its `res` notes
\* whether the path held a file when the call was made.
VARIABLES
    tasks,        \* ConsoleForTask.my_tasks.tasks
    files,        \* the file system: path -> file
    clock,        \* what Local::now() returns next
    pc,           \* the prompt process_input is blocked at
    state,        \* "Running", "Exited" (process_input returned false) or "Aborted" (panic)
    name,         \* local `name` of the "1" arm
    description,  \* local `description` of the "1" arm
    last          \* the last thing the program did: operation, argument, outcome

vars == <<tasks, files, clock, pc, state, name, description, last>>

Did(op, arg, ok, res) == [op |-> op, arg |-> arg, ok |-> ok, res |-> res]

Init ==
    /\ tasks = <<>>
    /\ files \in [Paths -> InitialFiles]
    /\ clock = FirstTime
    /\ pc = "command"
    /\ state = "Running"
    /\ name = <<>>
    /\ description = <<>>
    /\ last = Did("start", <<>>, TRUE, <<>>)

AtCommand == state = "Running" /\ pc = "command"

\* The command read is tok (line 219: command.trim()).
Reads(r, tok) == r.ok /\ trim(r.line) = tok

\* Err(e) => println!("Error user input: {e}") (line 282).
CommandInputError ==
    /\ AtCommand
    /\ \E r \in CommandInputs : ~r.ok
    /\ last' = Did("input_error", <<>>, FALSE, <<>>)
    /\ UNCHANGED <<tasks, files, clock, pc, state, name, description>>

\* "h" => Self::print_menu()
Help ==
    /\ AtCommand
    /\ \E r \in CommandInputs : Reads(r, <<"h">>)
    /\ last' = Did("help", <<>>, TRUE, <<>>)
    /\ UNCHANGED <<tasks, files, clock, pc, state, name, description>>

\* "1": the prompt for the name.  A run creates at most MaxAdds tasks.
AddCommand ==
    /\ AtCommand
    /\ clock < FirstTime + MaxAdds
    /\ \E r \in CommandInputs : Reads(r, <<"1">>)
    /\ pc' = "add_name"
    /\ last' = Did("prompt", <<>>, TRUE, <<>>)
    /\ UNCHANGED <<tasks, files, clock, state, name, description>>

AddName ==
    /\ state = "Running" /\ pc = "add_name"
    /\ \E r \in NewNameInputs :
        /\ r.ok
        /\ name' = trim(r.line)
    /\ pc' = "add_description"
    /\ last' = Did("prompt", <<>>, TRUE, <<>>)
    /\ UNCHANGED <<tasks, files, clock, state, description>>

AddDescription ==
    /\ state = "Running" /\ pc = "add_description"
    /\ \E r \in DescriptionInputs :
        /\ r.ok
        /\ description' = trim(r.line)
    /\ pc' = "add_priority"
    /\ last' = Did("prompt", <<>>, TRUE, <<>>)
    /\ UNCHANGED <<tasks, files, clock, state, name>>

\* One turn of `while priority == Priority::None`, then the push.
AddPriority ==
    /\ state = "Running" /\ pc = "add_priority"
    /\ \E r \in PriorityInputs :
        /\ r.ok
        /\ LET priority == PriorityOfIndex(trim(r.line)) IN
           IF priority = PriorityNone
           THEN /\ last' = Did("priority_retry", trim(r.line), TRUE, <<>>)
                /\ UNCHANGED <<tasks, clock, pc, name, description>>
           ELSE /\ tasks' = push(tasks, TaskNew(name, description, priority, clock))
                /\ clock' = clock + 1
                /\ pc' = "command"
                /\ name' = <<>>
                /\ description' = <<>>
                /\ last' = Did("add", <<>>, TRUE, <<>>)
    /\ UNCHANGED <<files, state>>

\* "2"
PopCommand ==
    /\ AtCommand
    /\ \E r \in CommandInputs : Reads(r, <<"2">>)
    /\ LET x == pop(tasks) IN
        /\ tasks' = x.tasks
        /\ last' = Did("pop", <<>>, x.some, x.val)
    /\ UNCHANGED <<files, clock, pc, state, name, description>>

\* "3": the prompt for the name.
RemoveCommand ==
    /\ AtCommand
    /\ \E r \in CommandInputs : Reads(r, <<"3">>)
    /\ pc' = "remove_name"
    /\ last' = Did("prompt", <<>>, TRUE, <<>>)
    /\ UNCHANGED <<tasks, files, clock, state, name, description>>

\* self.my_tasks.remove(name.trim()).unwrap(): an Err panics.
RemoveName ==
    /\ state = "Running" /\ pc = "remove_name"
    /\ \E r \in LookupInputs :
        /\ r.ok
        /\ LET x == remove(tasks, trim(r.line)) IN
            /\ tasks' = x.tasks
            /\ state' = IF x.ok THEN "Running" ELSE "Aborted"
            /\ last' = Did("remove", trim(r.line), x.ok, x.val)
    /\ pc' = "command"
    /\ UNCHANGED <<files, clock, name, description>>

\* "4": the prompt for the name.
FindCommand ==
    /\ AtCommand
    /\ \E r \in CommandInputs : Reads(r, <<"4">>)
    /\ pc' = "find_name"
    /\ last' = Did("prompt", <<>>, TRUE, <<>>)
    /\ UNCHANGED <<tasks, files, clock, state, name, description>>

\* The index found is kept 1-based: position() + 1.
FindName ==
    /\ state = "Running" /\ pc = "find_name"
    /\ \E r \in LookupInputs :
        /\ r.ok
        /\ LET index == find(tasks, trim(r.line)) IN
           last' = Did("find", trim(r.line), index # 0, IF index # 0 THEN <<index>> ELSE <<>>)
    /\ pc' = "command"
    /\ UNCHANGED <<tasks, files, clock, state, name, description>>

\* "5"
ListCommand ==
    /\ AtCommand
    /\ \E r \in CommandInputs : Reads(r, <<"5">>)
    /\ tasks' = sort(tasks)
    /\ last' = Did("list", <<>>, TRUE, <<>>)
    /\ UNCHANGED <<files, clock, pc, state, name, description>>

\* "6"
ClearCommand ==
    /\ AtCommand
    /\ \E r \in CommandInputs : Reads(r, <<"6">>)
    /\ tasks' = clear(tasks)
    /\ last' = Did("clear", <<>>, TRUE, <<>>)
    /\ UNCHANGED <<files, clock, pc, state, name, description>>

\* "7": the prompt for the path.
SaveCommand ==
    /\ AtCommand
    /\ \E r \in CommandInputs : Reads(r, <<"7">>)
    /\ pc' = "save_path"
    /\ last' = Did("prompt", <<>>, TRUE, <<>>)
    /\ UNCHANGED <<tasks, files, clock, state, name, description>>

\* store_to_file(path.trim()).expect(..): an Err panics.  `res` notes whether the
\* path held a file when the call was made.
SavePath ==
    /\ state = "Running" /\ pc = "save_path"
    /\ \E r \in PathInputs, createOk \in BOOLEAN, written \in WriteOutcomes(to_writer(tasks)) :
        /\ r.ok
        /\ LET path == trim(r.line)
               x == store_to_file(tasks, files, path, createOk, written)
           IN  /\ files' = x.files
               /\ state' = IF x.ok THEN "Running" ELSE "Aborted"
               /\ last' = Did("save", path, x.ok,
                              IF files[path].exists THEN <<"existed">> ELSE <<"absent">>)
    /\ pc' = "command"
    /\ UNCHANGED <<tasks, clock, name, description>>

\* "8": the prompt for the path.
LoadCommand ==
    /\ AtCommand
    /\ \E r \in CommandInputs : Reads(r, <<"8">>)
    /\ pc' = "load_path"
    /\ last' = Did("prompt", <<>>, TRUE, <<>>)
    /\ UNCHANGED <<tasks, files, clock, state, name, description>>

\* read_from_file(path.trim()).expect(..): an Err panics.
LoadPath ==
    /\ state = "Running" /\ pc = "load_path"
    /\ \E r \in PathInputs, openOk \in BOOLEAN :
        /\ r.ok
        /\ LET path == trim(r.line)
               x == read_from_file(tasks, files, path, openOk)
           IN  /\ tasks' = x.tasks
               /\ state' = IF x.ok THEN "Running" ELSE "Aborted"
               /\ last' = Did("load", path, x.ok,
                              IF files[path].exists THEN <<"existed">> ELSE <<"absent">>)
    /\ pc' = "command"
    /\ UNCHANGED <<files, clock, name, description>>

\* "9" => return false
Exit ==
    /\ AtCommand
    /\ \E r \in CommandInputs : Reads(r, <<"9">>)
    /\ state' = "Exited"
    /\ last' = Did("exit", <<>>, TRUE, <<>>)
    /\ UNCHANGED <<tasks, files, clock, pc, name, description>>

\* _ => println!("Invalid input")
InvalidCommand ==
    /\ AtCommand
    /\ \E r \in CommandInputs :
        /\ r.ok
        /\ trim(r.line) \notin CommandTokens
        /\ last' = Did("invalid", <<>>, TRUE, <<>>)
    /\ UNCHANGED <<tasks, files, clock, pc, state, name, description>>

PromptPcs == {"add_name", "add_description", "add_priority", "remove_name", "find_name",
              "save_path", "load_path"}

\* Self::input(..).unwrap() at a prompt inside a command: an Err panics.
PromptInputError ==
    /\ state = "Running" /\ pc \in PromptPcs
    /\ \E r \in NewNameInputs \cup DescriptionInputs \cup PriorityInputs
                    \cup LookupInputs \cup PathInputs : ~r.ok
    /\ state' = "Aborted"
    /\ last' = Did("input_error", <<>>, FALSE, <<>>)
    /\ UNCHANGED <<tasks, files, clock, pc, name, description>>

Next ==
    \/ CommandInputError
    \/ Help
    \/ AddCommand
    \/ AddName
    \/ AddDescription
    \/ AddPriority
    \/ PopCommand
    \/ RemoveCommand
    \/ RemoveName
    \/ FindCommand
    \/ FindName
    \/ ListCommand
    \/ ClearCommand
    \/ SaveCommand
    \/ SavePath
    \/ LoadCommand
    \/ LoadPath
    \/ Exit
    \/ InvalidCommand
    \/ PromptInputError

Spec == Init /\ [][Next]_vars

\* ------------------------------------------------------------------ properties
\* Two names are equal ignoring case.
CasePairs == {{"a", "A"}, {"b", "B"}, {"c", "C"}}
EqIgnoringCase(s, t) ==
    /\ Len(s) = Len(t)
    /\ \A i \in 1..Len(s) : s[i] = t[i] \/ {s[i], t[i]} \in CasePairs

\* The indexes (1-based) of the tasks of ts named n, ignoring case.
Matches(ts, n) == {i \in 1..Len(ts) : EqIgnoringCase(ts[i].name, n)}
Least(S) == CHOOSE i \in S : \A j \in S : i <= j

\* ts without its element i, the others in their order.
Without(ts, i) == [j \in 1..(Len(ts) - 1) |-> IF j < i THEN ts[j] ELSE ts[j + 1]]

RealPriorities == {PriorityLow, PriorityMedium, PriorityHigh, PriorityVeryHigh}

\* C1: remove(name) removes and returns exactly the first task whose name equals
\* name ignoring case and keeps the others in order; with no such task it returns
\* the not-found error and the store is the same sequence as before.
C1_Remove ==
    [][last'.op = "remove" =>
        LET M == Matches(tasks, last'.arg) IN
        IF M # {}
        THEN /\ last'.ok
             /\ last'.res = <<tasks[Least(M)]>>
             /\ Len(tasks') = Len(tasks) - 1
             /\ tasks' = Without(tasks, Least(M))
        ELSE /\ ~last'.ok
             /\ last'.res = <<>>
             /\ tasks' = tasks]_vars

\* A remove that took the first of the tasks matching a name typed in another case
\* and left a task behind.
C1_Witness ==
    /\ last.op = "remove"
    /\ last.ok
    /\ last.res[1].name # last.arg
    /\ tasks # <<>>

\* C2: find(name) returns the smallest index whose task's name equals name
\* ignoring case (indexes 1-based here) and not-found exactly when none does; and
\* whenever the last task of the store shares its name with no earlier one,
\* find of its name is the last index.
C2_Find ==
    [][/\ last'.op = "find" =>
            LET M == Matches(tasks, last'.arg) IN
            IF M = {} THEN ~last'.ok /\ last'.res = <<>>
            ELSE last'.ok /\ last'.res = <<Least(M)>>
       /\ (tasks' # <<>> /\ Matches(tasks', tasks'[Len(tasks')].name) = {Len(tasks')})
            => find(tasks', tasks'[Len(tasks')].name) = Len(tasks')]_vars

\* A find that skipped a task of another name and matched a name typed in another case.
C2_Witness ==
    /\ last.op = "find"
    /\ last.ok
    /\ last.res = <<2>>
    /\ tasks[2].name # last.arg

\* C3: popLast on an empty store returns "empty", is no error and leaves the store
\* empty; on a store of N >= 1 tasks it returns the last one and leaves the first
\* N-1 unchanged and in order.
C3_Pop ==
    [][last'.op = "pop" =>
        /\ state' = "Running"
        /\ IF tasks = <<>>
           THEN ~last'.ok /\ last'.res = <<>> /\ tasks' = <<>>
           ELSE /\ last'.ok
                /\ last'.res = <<tasks[Len(tasks)]>>
                /\ Len(tasks') = Len(tasks) - 1
                /\ \A j \in 1..Len(tasks') : tasks'[j] = tasks[j]]_vars

\* A pop that returned a task and left an older one in the store.
C3_Witness ==
    /\ last.op = "pop"
    /\ last.ok
    /\ tasks # <<>>
    /\ last.res[1].add_time > tasks[Len(tasks)].add_time

\* C4: after a save to a path that held no file returned success, a load from
\* that path (the file opened) succeeds and yields the saved sequence.
C4_RoundTrip ==
    (last.op = "save" /\ last.ok /\ last.res = <<"absent">>) =>
        LET x == read_from_file(<<>>, files, last.arg, TRUE) IN
        x.ok /\ x.tasks = tasks

\* C5: saveToFile on a path that holds a file returns success and changes neither
\* the file nor the store.
C5_SaveExisting ==
    [][(last'.op = "save" /\ files[last'.arg].exists) =>
        /\ last'.ok
        /\ state' = "Running"
        /\ files' = files
        /\ tasks' = tasks]_vars

\* A save, to a path holding a foreign file, of a store that holds other tasks.
C5_Witness ==
    /\ last.op = "save"
    /\ last.res = <<"existed">>
    /\ files[last.arg].data = ForeignText
    /\ tasks # <<>>
    /\ tasks[1].priority # PriorityNone

\* C6 as claimed: loadFromFile on a path with no file returns success and leaves
\* the sequence as it was; on a path holding a validly serialized sequence it
\* replaces the whole sequence with the file's.
C6_LoadAsClaimed ==
    [][last'.op = "load" =>
        IF ~files[last'.arg].exists
        THEN last'.ok /\ tasks' = tasks
        ELSE from_reader(files[last'.arg].data).ok
                => tasks' = from_reader(files[last'.arg].data).val]_vars

\* C6, amended: ... on a path holding a validly serialized sequence it either
\* returns success and replaces the whole sequence with the file's, or, when the
\* file cannot be opened, returns an error and leaves the sequence as it was.
C6_Load ==
    [][last'.op = "load" =>
        IF ~files[last'.arg].exists
        THEN last'.ok /\ tasks' = tasks /\ state' = "Running"
        ELSE from_reader(files[last'.arg].data).ok =>
                \/ last'.ok /\ tasks' = from_reader(files[last'.arg].data).val
                \/ ~last'.ok /\ tasks' = tasks]_vars

\* A load that replaced a store of other tasks by the one task of the file.
C6_Witness ==
    /\ last.op = "load"
    /\ last.ok
    /\ last.res = <<"existed">>
    /\ files[last.arg].data = ForeignText
    /\ clock > FirstTime
    /\ Len(tasks) = 1
    /\ tasks[1].priority = PriorityNone

\* C7: whenever saveToFile on a path that held no file returns success, the file
\* holds the complete serialization of the store.
C7_SaveAllOrNothing ==
    (last.op = "save" /\ last.ok /\ last.res = <<"absent">>) =>
        /\ files[last.arg].exists
        /\ files[last.arg].data = to_writer(tasks)

\* C8: no task of the store has the priority None.
C8_NoSentinel ==
    \A i \in 1..Len(tasks) : tasks[i].priority \in RealPriorities

\* C9: a failed line read at any prompt is reported, the program does not
\* terminate, the store is unchanged and the loop is back at the command prompt.
C9_InputErrorCaught ==
    [][last'.op = "input_error" =>
        /\ state' = "Running"
        /\ pc' = "command"
        /\ tasks' = tasks]_vars

\* C10: from Running, exit leads to Exited; a remove of a missing name, a failed
\* save and a failed load abort; every other step leaves the controller Running;
\* an invalid command leaves the store unchanged.
C10_Controller ==
    [][state = "Running" =>
        /\ state' = (IF last'.op = "exit" THEN "Exited"
                     ELSE IF last'.op \in {"remove", "save", "load"} /\ ~last'.ok
                          THEN "Aborted"
                     ELSE "Running")
        /\ last'.op = "invalid" => tasks' = tasks]_vars

\* When every token reaches the file, the round trip of C4 holds.
RoundTripWhenWritten ==
    (last.op = "save" /\ last.ok /\ last.res = <<"absent">>
        /\ files[last.arg].data = to_writer(tasks)) =>
        LET x == read_from_file(<<>>, files, last.arg, TRUE) IN
        x.ok /\ x.tasks = tasks

====
